---- MODULE Spec2Model ----
(***************************************************************************)
(* PostgresGraphStore (llama_index/graph_stores/postgres/base.py): a       *)
(* triplet store over one Apache AGE connection.  The model keeps the      *)
(* graph the connection sees (nodes, edges), the graph as of the last      *)
(* commit (cNodes, cEdges), the position of the one in-flight call (pc),   *)
(* its arguments (call), what it handed back (ret, outcome), the           *)
(* statements and commits it sent to the engine (log) and the graph at the *)
(* moment it was called (pre).                                             *)
(*                                                                         *)
(* Strings are sequences of one-character strings, so that str.replace,    *)
(* str.upper and str.lower are computed character by character.            *)
(***************************************************************************)
EXTENDS Naturals, Sequences, FiniteSets

VARIABLES nodes, edges, cNodes, cEdges, graphExists, pc, call, ret, outcome, log, pre

vars == <<nodes, edges, cNodes, cEdges, graphExists, pc, call, ret, outcome, log, pre>>

\* ------------------------------------------------------------- bounds
\* The largest number of distinct edges upsert_triplet is driven to.
MaxEdges == 2
\* The largest depth passed to get_rel_map.
MaxDepth == 2
\* The largest limit passed to get_rel_map.
MaxLimit == 1
\* The longest subject list passed to get_rel_map.
MaxSubjs == 1

\* ------------------------------------------------------------- inputs
\* Node ids the callers use: two that differ only in case, and a third.
Ids == {<<"A">>, <<"a">>, <<"B">>}

\* Relations as the callers write them: raw and already-normalized forms.
Relations == {<<"f">>, <<"F">>, <<"f", " ", " ">>, <<"F", "_", "_">>}

\* Subjects handed to get_rel_map ("b" matches node "B" only by case folding).
SubjInputs == {<<"A">>, <<"b">>}

\* graph_name of the constructor, and the name of some other graph.
GraphName == "graph_store"

GraphNames == {GraphName, "other"}

\* ------------------------------------------------------------ strings
UpperChar(c) ==
    CASE c = "a" -> "A"
      [] c = "b" -> "B"
      [] c = "f" -> "F"
      [] OTHER -> c

LowerChar(c) ==
    CASE c = "A" -> "a"
      [] c = "B" -> "b"
      [] c = "F" -> "f"
      [] OTHER -> c

\* str.upper()
Upper(s) == [i \in 1..Len(s) |-> UpperChar(s[i])]

\* str.lower()
Lower(s) == [i \in 1..Len(s) |-> LowerChar(s[i])]

\* str.replace(old, new) for one-character old and new: every occurrence.
Replace(s, old, new) == [i \in 1..Len(s) |-> IF s[i] = old THEN new ELSE s[i]]

\* The normalization without its upper().
NoUpper(rel) == Replace(rel, " ", "_")

\* rel.replace(" ", "_").upper()
Normalize(rel) == Upper(Replace(rel, " ", "_"))

\* upsert_triplet's first line.
UpsertType(rel) == Normalize(rel)

\* delete_rel's first line.
DeleteRelType(rel) == Normalize(rel)

\* The edge types the inputs can produce.
Types == {Normalize(r) : r \in Relations}

Triples == Ids \X Types \X Ids

\* -------------------------------------------------------------- graph
EmptyNodes == [n \in Ids |-> 0]

EmptyEdges == [e \in Triples |-> 0]

RECURSIVE SumOver(_, _)
SumOver(f, S) ==
    IF S = {} THEN 0
    ELSE LET x == CHOOSE y \in S : TRUE
         IN  f[x] + SumOver(f, S \ {x})

Present(es) == {e \in Triples : es[e] > 0}

\* MERGE (n:`label` {id: %s}): match the node, or create it.
MergeNode(ns, id) == IF ns[id] > 0 THEN ns ELSE [ns EXCEPT ![id] = 1]

\* CREATE in place of MERGE: one more edge on every call.
CreateEdge(es, s, t, o) == [es EXCEPT ![<<s, t, o>>] = @ + 1]

\* MERGE (n1)-[:`rel`]->(n2): match the edge, or create it.
MergeEdge(es, s, t, o) ==
    IF es[<<s, t, o>>] > 0 THEN es ELSE [es EXCEPT ![<<s, t, o>>] = 1]

\* The pattern without its type, -[r]->: every edge from s to o goes.
DeleteAnyType(es, s, t, o) ==
    [e \in Triples |-> IF e[1] = s /\ e[3] = o THEN 0 ELSE es[e]]

\* The parameters (subj, obj) bound the other way round.
DeleteReversed(es, s, t, o) == [es EXCEPT ![<<o, t, s>>] = 0]

\* MATCH (n1)-[r:`rel`]->(n2) WHERE n1.id = %s AND n2.id = %s DELETE r
DeleteEdge(es, s, t, o) == [es EXCEPT ![<<s, t, o>>] = 0]

\* A delete_entity that matches nothing.
KeepNode(ns, id) == ns

\* MATCH (n) WHERE n.id = %s DELETE n
RemoveNode(ns, id) == [ns EXCEPT ![id] = 0]

\* MATCH (n1)--() WHERE n1.id = %s RETURN count(*): one match per edge
\* with n1 at either end.
CountEdges(ns, es, id) ==
    IF ns[id] = 0 THEN 0
    ELSE SumOver(es, {e \in Triples : e[1] = id \/ e[3] = id})

\* bool(row) of a one-column row.
RowTruthy(ns, es, id) == TRUE

\* check_edges: bool(row[0])
CheckEdges(ns, es, id) == CountEdges(ns, es, id) # 0

\* get's rows, as a bag of [type(r), n2.id] pairs: one row per edge from subj.
GetRows(ns, es, subj) ==
    [p \in Types \X Ids |->
        IF ns[subj] > 0 /\ ns[p[2]] > 0 THEN es[<<subj, p[1], p[2]>>] ELSE 0]

BagSize(b) == SumOver(b, DOMAIN b)

\* -------------------------------------------------------- get_rel_map
Last(p) == p[Len(p)]

Range(p) == {p[i] : i \in 1..Len(p)}

\* MATCH p=(n1)-[*1..depth]->(): the directed paths of k edges from n, no edge
\* used twice in one path.
RECURSIVE PathsOfLen(_, _, _)
PathsOfLen(es, n, k) ==
    IF k = 1 THEN {<<e>> : e \in {x \in Present(es) : x[1] = n}}
    ELSE UNION {{Append(p, e) : e \in {x \in Present(es) :
                                         x[1] = Last(p)[3] /\ x \notin Range(p)}} :
                p \in PathsOfLen(es, n, k - 1)}

\* The query's rows before LIMIT: one row per start node that has a path,
\* holding the distinct [type(rel), endNode(rel).id] pairs of its paths.
RelMapRows(ns, es, subjs, depth) ==
    LET wanted == {Lower(subjs[i]) : i \in 1..Len(subjs)}
        starts == {n \in Ids : ns[n] > 0 /\ Lower(n) \in wanted}
        paths(n) == UNION {PathsOfLen(es, n, k) : k \in 1..depth}
        frs(n) == UNION {{<<p[i][2], p[i][3]>> : i \in 1..Len(p)} : p \in paths(n)}
    IN  {[subj |-> n, rels |-> frs(n)] : n \in {m \in starts : paths(m) # {}}}

Min(a, b) == IF a < b THEN a ELSE b

\* The query without its LIMIT.
NoLimit(rows, limit) == {rows}

\* LIMIT {limit} without ORDER BY: any `limit` of the rows.

LimitRows(rows, limit) ==
    {S \in SUBSET rows : Cardinality(S) = Min(limit, Cardinality(rows))}

\* for row in cursor: rel_map[row[0]] = row[1]
RelMapOf(S) ==
    [k \in {r.subj : r \in S} |-> (CHOOSE r \in S : r.subj = k).rels]

\* Optional[List[str]]: None, or a list.
None == [isNone |-> TRUE, value |-> <<>>]

Some(l) == [isNone |-> FALSE, value |-> l]

SubjLists ==
    {None} \cup {Some(l) : l \in UNION {[1..k -> SubjInputs] : k \in 0..MaxSubjs}}

\* The test without its len(subjs) == 0.
OnlyNone(subjs) == subjs.isNone

\* subjs is None or len(subjs) == 0
NoSubjects(subjs) == subjs.isNone \/ Len(subjs.value) = 0

\* ------------------------------------------------------------- commit
\* A statement left uncommitted.
NoCommit(working, committed) == committed

\* self._age.commit(): what the connection sees becomes the committed graph.

Commit(working, committed) == working

\* What each sub-step of delete sends to the engine, in order.
DeleteRelLog == <<"delete_rel", "commit">>

DeleteEntityLog(site) == <<site, "commit">>

\* A check_edges that commits after its query.
CheckEdgesCommits(site) == <<site, "commit">>

\* check_edges sends its count query and nothing else.

CheckEdgesLog(site) == <<site>>

\* -------------------------------------------------------------- state
NoCall == [op |-> "none"]

NoRet == <<>>

Snapshot == [nodes |-> nodes, edges |-> edges]

Init ==
    /\ nodes = EmptyNodes
    /\ edges = EmptyEdges
    /\ cNodes = EmptyNodes
    /\ cEdges = EmptyEdges
    /\ graphExists = TRUE
    /\ pc = "idle"
    /\ call = NoCall
    /\ ret = NoRet
    /\ outcome = "none"
    /\ log = <<>>
    /\ pre = [nodes |-> EmptyNodes, edges |-> EmptyEdges]

graph == <<nodes, edges, cNodes, cEdges, graphExists>>

\* A caller enters a method: nothing is sent to the engine yet.
Begin(c) ==
    /\ pc = "idle"
    /\ pc' = c.op
    /\ call' = c
    /\ ret' = NoRet
    /\ outcome' = "running"
    /\ log' = <<>>
    /\ pre' = Snapshot
    /\ UNCHANGED graph

\* The method returns value to its caller.
Return(value) ==
    /\ pc' = "done"
    /\ outcome' = "returned"
    /\ ret' = value

\* The statement at site raises; execCypher rolls the transaction back and
\* the exception propagates to the caller.
Raise(site) ==
    /\ nodes' = cNodes
    /\ edges' = cEdges
    /\ pc' = "done"
    /\ outcome' = "raised"
    /\ ret' = [raisedAt |-> site]
    /\ log' = log \o <<site, "rollback">>
    /\ UNCHANGED <<cNodes, cEdges, graphExists, call, pre>>

\* The caller has the result (or the exception) and the adapter waits for
\* its next call: one call is in flight at a time.
Idle ==
    /\ pc = "done"
    /\ pc' = "idle"
    /\ call' = NoCall
    /\ ret' = NoRet
    /\ outcome' = "none"
    /\ log' = <<>>
    /\ pre' = Snapshot
    /\ UNCHANGED graph

\* ---------------------------------------------------------------- get
CallGet(subj) == Begin([op |-> "get", subj |-> subj])

Get ==
    /\ pc = "get"
    /\ graphExists
    /\ log' = Append(log, "get")
    /\ Return(GetRows(nodes, edges, call.subj))
    /\ UNCHANGED <<graph, call, pre>>

\* -------------------------------------------------------- get_rel_map
CallGetRelMap(subjs, depth, limit) ==
    Begin([op |-> "get_rel_map", subjs |-> subjs, depth |-> depth, limit |-> limit])

\* No subjects: the empty rel_map goes back before any query is built.
GetRelMapEmpty ==
    /\ pc = "get_rel_map"
    /\ NoSubjects(call.subjs)
    /\ Return(RelMapOf({}))
    /\ UNCHANGED <<graph, call, log, pre>>

GetRelMapQuery ==
    /\ pc = "get_rel_map"
    /\ ~NoSubjects(call.subjs)
    /\ graphExists
    /\ log' = Append(log, "get_rel_map")
    /\ \E S \in LimitRows(RelMapRows(nodes, edges, call.subjs.value, call.depth),
                          call.limit) :
          Return(RelMapOf(S))
    /\ UNCHANGED <<graph, call, pre>>

\* ----------------------------------------------------- upsert_triplet
EdgeCount(es) == Cardinality(Present(es))

\* The model drives upsert_triplet to at most MaxEdges distinct edges.
CallUpsertTriplet(subj, rel, obj) ==
    /\ \/ EdgeCount(edges) < MaxEdges
       \/ edges[<<subj, UpsertType(rel), obj>>] > 0
    /\ Begin([op |-> "upsert_triplet", subj |-> subj, rel |-> rel, obj |-> obj])

\* The three MERGEs are one statement; the commit follows it.
UpsertTriplet ==
    /\ pc = "upsert_triplet"
    /\ graphExists
    /\ LET rel == UpsertType(call.rel)
           n1 == MergeNode(nodes, call.subj)
           n2 == MergeNode(n1, call.obj)
           es == MergeEdge(edges, call.subj, rel, call.obj)
       IN  /\ nodes' = n2
           /\ edges' = es
           /\ cNodes' = Commit(n2, cNodes)
           /\ cEdges' = Commit(es, cEdges)
    /\ log' = log \o <<"upsert_triplet", "commit">>
    /\ Return(NoRet)
    /\ UNCHANGED <<graphExists, call, pre>>

\* ------------------------------------------------------------- delete
CallDelete(subj, rel, obj) ==
    /\ Begin([op |-> "delete", subj |-> subj, rel |-> rel, obj |-> obj])

\* delete_rel(subj, obj, rel): the statement, then its commit.
DeleteRel ==
    /\ pc = "delete"
    /\ graphExists
    /\ LET es == DeleteEdge(edges, call.subj, DeleteRelType(call.rel), call.obj)
       IN  /\ edges' = es
           /\ cEdges' = Commit(es, cEdges)
           /\ cNodes' = Commit(nodes, cNodes)
    /\ log' = log \o DeleteRelLog
    /\ pc' = "check_subj"
    /\ UNCHANGED <<nodes, graphExists, call, ret, outcome, pre>>

\* if not check_edges(entity): the count query, which commits nothing.
CheckStep(site, entity, withEdges, without) ==
    /\ pc = site
    /\ graphExists
    /\ log' = log \o CheckEdgesLog(site)
    /\ IF CheckEdges(nodes, edges, entity)
       THEN withEdges
       ELSE /\ pc' = without
            /\ UNCHANGED <<ret, outcome>>
    /\ UNCHANGED <<graph, call, pre>>

\* delete_entity(entity): the engine refuses to delete a node that has edges;
\* otherwise the statement, then its commit.
DeleteStep(site, entity, after) ==
    /\ pc = site
    /\ graphExists
    /\ IF CountEdges(nodes, edges, entity) # 0
       THEN Raise(site)
       ELSE /\ LET ns == RemoveNode(nodes, entity)
               IN  /\ nodes' = ns
                   /\ cNodes' = Commit(ns, cNodes)
                   /\ cEdges' = Commit(edges, cEdges)
            /\ log' = log \o DeleteEntityLog(site)
            /\ after
            /\ UNCHANGED <<edges, graphExists, call, pre>>

GoTo(site) == pc' = site /\ UNCHANGED <<ret, outcome>>

CheckSubject == CheckStep("check_subj", call.subj, GoTo("check_obj"), "delete_subj")

DeleteSubject == DeleteStep("delete_subj", call.subj, GoTo("check_obj"))

CheckObject == CheckStep("check_obj", call.obj, Return(NoRet), "delete_obj")

DeleteObject == DeleteStep("delete_obj", call.obj, Return(NoRet))

\* ------------------------------------------------------- delete_graph
CallDeleteGraph(name) == Begin([op |-> "delete_graph", graph_name |-> name])

\* age.deleteGraph drops the named graph and commits; dropping the adapter's
\* own graph leaves every later statement to fail.
DeleteGraph ==
    /\ pc = "delete_graph"
    /\ IF call.graph_name = GraphName
       THEN /\ graphExists
            /\ nodes' = EmptyNodes
            /\ edges' = EmptyEdges
            /\ cNodes' = EmptyNodes
            /\ cEdges' = EmptyEdges
            /\ graphExists' = FALSE
       ELSE UNCHANGED graph
    /\ log' = log \o <<"delete_graph", "commit">>
    /\ Return(NoRet)
    /\ UNCHANGED <<call, pre>>

\* ----------------------------------------------------------- failures
\* The positions at which the next thing the method does is a statement.
Sites ==
    {"get", "upsert_triplet", "delete", "check_subj", "delete_subj", "check_obj",
     "delete_obj", "delete_graph"}

\* Any statement may fail in the engine: the failure is not caught.
ExecFails ==
    /\ \/ pc \in Sites
       \/ pc = "get_rel_map" /\ ~NoSubjects(call.subjs)
    /\ Raise(pc)

\* ------------------------------------------------------ specification
Depths == 1..MaxDepth

Limits == 0..MaxLimit

Calls ==
    \/ \E s \in Ids : CallGet(s)
    \/ \E l \in SubjLists, d \in Depths, k \in Limits : CallGetRelMap(l, d, k)
    \/ \E s \in Ids, r \in Relations, o \in Ids : CallUpsertTriplet(s, r, o)
    \/ \E s \in Ids, r \in Relations, o \in Ids : CallDelete(s, r, o)

Steps ==
    \/ Get
    \/ GetRelMapEmpty
    \/ GetRelMapQuery
    \/ UpsertTriplet
    \/ DeleteRel
    \/ CheckSubject
    \/ DeleteSubject
    \/ CheckObject
    \/ DeleteObject
    \/ Idle

Next ==
    \/ Calls
    \/ Steps
    \/ \E g \in GraphNames : CallDeleteGraph(g)
    \/ DeleteGraph
    \/ ExecFails

Spec == Init /\ [][Next]_vars

\* Every call runs to its return: no statement fails and the graph is not dropped.
NextOk == Calls \/ Steps

SpecOk == Init /\ [][NextOk]_vars

\* ============================================================= claims
Done(op) == pc = "done" /\ call.op = op

Returned(op) == Done(op) /\ outcome = "returned"

\* N(r) as the claims state it: each space an underscore, each letter upper case.
NormalizedRelation(r) ==
    [i \in 1..Len(r) |-> IF r[i] = " " THEN "_" ELSE UpperChar(r[i])]

\* The edge a call's arguments name.
Target == <<call.subj, NormalizedRelation(call.rel), call.obj>>

\* The edges other than the target that touched n when the call began.
IncidentOther(n) ==
    {e \in Present(pre.edges) : e # Target /\ (e[1] = n \/ e[3] = n)}

\* C1: after upsert_triplet(s, r, o) returns, get(s) holds the pair [N(r), o].
C1_UpsertThenGet ==
    Returned("upsert_triplet") =>
        GetRows(nodes, edges, call.subj)[<<NormalizedRelation(call.rel), call.obj>>] > 0

C1_Witness ==
    /\ Returned("upsert_triplet")
    /\ call.rel = <<"f", " ", " ">>
    /\ GetRows(nodes, edges, call.subj)[<<(<<"F", "_", "_">>), call.obj>>] > 0

\* C2: upsert_triplet(s, r, o) called where the triplet is already stored leaves
\* the graph as it was: one edge of the type from s to o, one node s, one node
\* o, and as many entries in get(s) as before.
C2_UpsertIdempotent ==
    (Returned("upsert_triplet") /\ pre.edges[Target] > 0) =>
        /\ nodes = pre.nodes
        /\ edges = pre.edges
        /\ edges[Target] = 1
        /\ nodes[call.subj] = 1
        /\ nodes[call.obj] = 1
        /\ BagSize(GetRows(nodes, edges, call.subj))
             = BagSize(GetRows(pre.nodes, pre.edges, call.subj))

C2_Witness ==
    /\ Returned("upsert_triplet")
    /\ pre.edges[Target] > 0
    /\ call.rel # NormalizedRelation(call.rel)
    /\ BagSize(GetRows(nodes, edges, call.subj)) = 2

\* C3: after delete(s, r, o) returns, get(s) does not hold the pair [N(r), o],
\* whether the edge was there or not and whether r was raw or normalized.
C3_DeleteThenGet ==
    Returned("delete") =>
        GetRows(nodes, edges, call.subj)[<<NormalizedRelation(call.rel), call.obj>>] = 0

C3_Witness ==
    /\ Returned("delete")
    /\ pre.edges[Target] > 0
    /\ call.rel # NormalizedRelation(call.rel)
    /\ nodes[call.subj] > 0

\* C4: after delete(s, r, o) returns, each of s and o is gone if no other edge
\* touches it and is still there if one does (incoming or outgoing).
C4_OrphanCleanup ==
    Returned("delete") =>
        \A n \in {call.subj, call.obj} :
            /\ IncidentOther(n) = {} => nodes[n] = 0
            /\ IncidentOther(n) # {} => nodes[n] > 0

C4_Witness ==
    /\ Returned("delete")
    /\ call.subj # call.obj
    /\ pre.edges[Target] > 0
    /\ nodes[call.subj] = 0
    /\ nodes[call.obj] > 0
    /\ IncidentOther(call.obj) # {}
    /\ \A e \in IncidentOther(call.obj) : e[3] = call.obj /\ e[1] # call.obj

\* The subject list of the call is None or empty.
SubjectsAbsent == call.subjs.isNone \/ call.subjs.value = <<>>

\* The flattened-chain entries of a rel_map, summed over its keys.
RECURSIVE TotalEntries(_, _)
TotalEntries(m, K) ==
    IF K = {} THEN 0
    ELSE LET k == CHOOSE x \in K : TRUE
         IN  Cardinality(m[k]) + TotalEntries(m, K \ {k})

\* C5 as stated: the entries of the returned mapping, summed over all keys,
\* number at most limit.
C5_LimitCapsEntries ==
    (Returned("get_rel_map") /\ ~SubjectsAbsent) =>
        TotalEntries(ret, DOMAIN ret) <= call.limit

\* C5 amended: limit caps the keys of the returned mapping (the query's rows,
\* one per matching node), however many entries each key holds.
C5_LimitCapsKeys ==
    (Returned("get_rel_map") /\ ~SubjectsAbsent) =>
        Cardinality(DOMAIN ret) <= call.limit

C5_Witness ==
    /\ Returned("get_rel_map")
    /\ call.subjs = Some(<< <<"A">> >>)
    /\ call.depth = 1
    /\ call.limit = 1
    /\ nodes[<<"A">>] > 0
    /\ nodes[<<"a">>] > 0
    /\ DOMAIN ret = {<<"A">>}
    /\ Cardinality(ret[<<"A">>]) = 2

\* A delete whose edge deletion committed and whose orphan check then failed.
CheckFailed ==
    /\ Done("delete")
    /\ outcome = "raised"
    /\ ret.raisedAt \in {"check_subj", "check_obj"}

EdgeRemoved == edges = [pre.edges EXCEPT ![Target] = 0]

C7_NoSubjectsNoQuery ==
    (Done("get_rel_map") /\ SubjectsAbsent) =>
        /\ outcome = "returned"
        /\ DOMAIN ret = {}
        /\ log = <<>>

C7_Witness ==
    /\ Done("get_rel_map")
    /\ call.subjs = Some(<<>>)
    /\ call.depth = 2
    /\ EdgeCount(edges) = 2
    /\ DOMAIN ret = {}
    /\ log = <<>>

\* C8: get and get_rel_map change nothing; upsert_triplet(s, r, o) removes
\* nothing and adds only s, o and (s, N(r), o); delete(s, r, o) adds nothing
\* and removes only (s, N(r), o), s and o; delete_graph adds nothing.
C8_LifecycleFrame ==
    /\ call.op \in {"none", "get", "get_rel_map"} =>
          nodes = pre.nodes /\ edges = pre.edges
    /\ call.op = "upsert_triplet" =>
          /\ \A n \in Ids :
                /\ nodes[n] >= pre.nodes[n]
                /\ n \notin {call.subj, call.obj} => nodes[n] = pre.nodes[n]
          /\ \A e \in Triples :
                /\ edges[e] >= pre.edges[e]
                /\ e # Target => edges[e] = pre.edges[e]
    /\ call.op = "delete" =>
          /\ \A n \in Ids :
                /\ nodes[n] <= pre.nodes[n]
                /\ n \notin {call.subj, call.obj} => nodes[n] = pre.nodes[n]
          /\ \A e \in Triples :
                /\ edges[e] <= pre.edges[e]
                /\ e # Target => edges[e] = pre.edges[e]
    /\ call.op = "delete_graph" =>
          /\ \A n \in Ids : nodes[n] <= pre.nodes[n]
          /\ \A e \in Triples : edges[e] <= pre.edges[e]

C8_Witness ==
    /\ Returned("delete")
    /\ call.subj # call.obj
    /\ pre.edges[Target] > 0
    /\ edges[Target] = 0
    /\ \E t \in Types : t # Target[2] /\ edges[<<call.subj, t, call.obj>>] > 0

\* What a sub-step of delete may have sent if every sub-step ended with a commit.
SubStepCommitting(check, del) == {<<check, "commit">>, <<check, del, "commit">>}

\* C9 as stated: delete runs edge deletion, subject check, object check in
\* that order, and each of the three sub-steps ends with its own commit.
C9_EachSubStepCommits ==
    Returned("delete") =>
        \E x \in SubStepCommitting("check_subj", "delete_subj"),
           y \in SubStepCommitting("check_obj", "delete_obj") :
            log = <<"delete_rel", "commit">> \o x \o y

\* What a sub-step of delete sends: the check alone when edges remain, the
\* check, the node deletion and its commit when none does.
SubStepSent(n, check, del) ==
    IF IncidentOther(n) # {} THEN <<check>> ELSE <<check, del, "commit">>

\* C9 amended: the order is as stated; the edge deletion ends with its own
\* commit; a node sub-step commits exactly when it deletes the node, and a
\* check that finds edges commits nothing.
C9_DeleteOrder ==
    Returned("delete") =>
        log = <<"delete_rel", "commit">>
                \o SubStepSent(call.subj, "check_subj", "delete_subj")
                \o SubStepSent(call.obj, "check_obj", "delete_obj")

C9_Witness ==
    /\ Returned("delete")
    /\ log = <<"delete_rel", "commit", "check_subj", "delete_subj", "commit", "check_obj">>

\* C10: from the empty graph, between calls of upsert_triplet and delete that
\* all return, every node has an edge at one of its ends.
C10_NoOrphanNode ==
    pc \in {"idle", "done"} =>
        \A n \in Ids :
            nodes[n] > 0 => \E e \in Present(edges) : e[1] = n \/ e[3] = n

C10_Witness ==
    /\ Returned("delete")
    /\ pre.edges[Target] = 0
    /\ pre.nodes[call.subj] > 0
    /\ pre.nodes[call.obj] > 0
    /\ nodes = pre.nodes

====
